---- MODULE Spec2Model ----
(***************************************************************************)
(* Model of the pipeline orchestrator of PIML (main.py): argument          *)
(* validation, load_or_generate_data, the unconditional regeneration of    *)
(* structures and query points, the three model paths (PNN, FNN, GNN) and  *)
(* the consumer dispatch.  A behaviour is a sequence of runs of main over  *)
(* one data directory; the directory's files persist between runs.         *)
(*                                                                         *)
(* A Frame is described by the number of structures it holds and by the    *)
(* number of rows the filtering removed from structure 0; its rows are     *)
(* laid out in structure order, Z_POINTS * X_POINTS * A_POINTS rows per    *)
(* structure before filtering.  Structure ids are 0 .. n-1.                *)
(***************************************************************************)
EXTENDS Integers, Sequences, FiniteSets, TLC

\* ------------------------------------------------------------------------
\* Program constants
\* ------------------------------------------------------------------------
N_POINTS == 1000
Z_POINTS == 14
X_POINTS == 10
A_POINTS == 1
SPLIT_IDX == 800
TEST_IDX == 900
\* Hard-coded row cuts of the FNN path
ROW_TRAIN_END == 135520
ROW_VAL_END == 152720
ROW_TEST_END == 169799

\* ------------------------------------------------------------------------
\* Bounds of the model
\* ------------------------------------------------------------------------
\* Structure count of the enlarged (edited) configuration
BigN == 1100
\* Most rows the filtering removes from structure 0
MaxFiltered == 1

\* ------------------------------------------------------------------------
\* Inputs
\* ------------------------------------------------------------------------
\* argparse's value of an option that was not given
None == "None"

\* SAMPLING_CONFIG as shipped, and edits of it: a larger domain with the same
\* 80/10/10 proportions, inverted split indices, a zero split index, a test
\* index equal to N_POINTS.
SAMPLING_CONFIG ==
    [N_POINTS |-> N_POINTS, SPLIT_IDX |-> SPLIT_IDX, TEST_IDX |-> TEST_IDX]

Configs ==
    { SAMPLING_CONFIG,
      [N_POINTS |-> BigN, SPLIT_IDX |-> (BigN * 4) \div 5,
       TEST_IDX |-> (BigN * 9) \div 10],
      [N_POINTS |-> N_POINTS, SPLIT_IDX |-> TEST_IDX, TEST_IDX |-> SPLIT_IDX],
      [N_POINTS |-> N_POINTS, SPLIT_IDX |-> 0, TEST_IDX |-> TEST_IDX],
      [N_POINTS |-> N_POINTS, SPLIT_IDX |-> SPLIT_IDX, TEST_IDX |-> N_POINTS] }

Modes == {None, "train", "eval"}
Models == {None, "GNN", "FNN", "PNN"}
ModelPaths == {None, "", "model.pt"}
Optimizers == {"Adam", "SGD"}
Criteria == {"L1loss", "MSE", "Huber"}

parse_arguments ==
    [run_analysis : BOOLEAN, mode : Modes, model : Models,
     model_path : ModelPaths, optimizer : Optimizers, criterion : Criteria]

\* ------------------------------------------------------------------------
\* Files of the data directory
\* ------------------------------------------------------------------------
FileNames ==
    {"frame_large.pkl", "section.pkl", "ZS.pkl", "xs.pkl",
     "batched_graph.pkl", "batched_graph_val.pkl", "batched_graph_test.pkl"}

\* A file's content: the structure count it was generated for and the rows
\* the filtering removes from structure 0.
Absent == [present |-> FALSE, n |-> 0, lost |-> 0]
Content(n, lost) == [present |-> TRUE, n |-> n, lost |-> lost]

\* A value not yet assigned in the current run
Unset == [present |-> FALSE, n |-> 0, lost |-> 0]

VARIABLES
    disk,        \* file name -> content
    dirExists,   \* the data directory exists
    cfg,         \* the configuration dictionaries of the current run
    args,        \* the parsed arguments of the current run
    pc,          \* position of the current run in main
    result,      \* "running", "returned" or the exception raised
    log,         \* stages executed by the current run, in order
    reads,       \* files read by the current run
    writes,      \* files written by the current run
    FrameLarge,  \* the Frame held by main
    Section,     \* the structures held by main
    DF,          \* the filtered Frame
    parts,       \* structure partition made by train_val_test_generate
    train_df,    \* the GNN path's train_df (set of structure ids)
    rows,        \* the FNN path's row slices
    scaler,      \* feature scaler of the FNN path
    scalery,     \* target scaler of the FNN path
    scaled,      \* transformed arrays of the FNN path
    calls        \* consumer routines invoked by the current run, in order

vars == <<disk, dirExists, cfg, args, pc, result, log, reads, writes,
          FrameLarge, Section, DF, parts, train_df, rows, scaler, scalery,
          scaled, calls>>

data == <<FrameLarge, Section, DF>>
splits == <<parts, train_df, rows, scaler, scalery, scaled>>

\* ------------------------------------------------------------------------
\* Frames and row slices
\* ------------------------------------------------------------------------
Min(a, b) == IF a < b THEN a ELSE b

RowsPerStructure == Z_POINTS * X_POINTS * A_POINTS

Structures(f) == 0 .. (f.n - 1)

\* Rows of structure s are FirstRow(f, s) .. EndRow(f, s) - 1
FirstRow(f, s) == IF s = 0 THEN 0 ELSE s * RowsPerStructure - f.lost
EndRow(f, s) == (s + 1) * RowsPerStructure - f.lost
FrameLen(f) == IF f.n = 0 THEN 0 ELSE EndRow(f, f.n - 1)

\* DF.iloc[a:b]: a half-open row range, clipped to the frame
iloc(f, a, b) == [lo |-> Min(a, FrameLen(f)), hi |-> Min(b, FrameLen(f))]

NoRows == [lo |-> 0, hi |-> 0]
NoParts == [train |-> {}, val |-> {}, test |-> {}]
NoRowParts == [train |-> NoRows, val |-> NoRows, test |-> NoRows]
NoScaler == [fits |-> 0, params |-> NoRows]
NoArray == [rows |-> NoRows, params |-> NoRows]
NoScaled == [x_train |-> NoArray, x_val |-> NoArray, x_test |-> NoArray,
             y_train |-> NoArray, y_val |-> NoArray, y_test |-> NoArray]

\* ------------------------------------------------------------------------
\* Initial state: an empty data directory, no run started
\* ------------------------------------------------------------------------
NoArgs == [run_analysis |-> FALSE, mode |-> None, model |-> None,
           model_path |-> None, optimizer |-> "Adam", criterion |-> "MSE"]

\* No run in progress: nothing of a run is held in memory
NoRun ==
    /\ cfg = SAMPLING_CONFIG
    /\ args = NoArgs
    /\ pc = "idle"
    /\ result = "returned"
    /\ log = <<>>
    /\ reads = {}
    /\ writes = {}
    /\ FrameLarge = Unset
    /\ Section = Unset
    /\ DF = Unset
    /\ parts = NoParts
    /\ train_df = {}
    /\ rows = NoRowParts
    /\ scaler = NoScaler
    /\ scalery = NoScaler
    /\ scaled = NoScaled
    /\ calls = <<>>

Init ==
    /\ disk = [f \in FileNames |-> Absent]
    /\ dirExists = FALSE
    /\ NoRun

\* ------------------------------------------------------------------------
\* A run starts: the arguments are parsed and main is entered
\* ------------------------------------------------------------------------
Invoke ==
    /\ pc = "idle"
    /\ \E a \in parse_arguments, c \in Configs :
          /\ args' = a
          /\ cfg' = c
    /\ pc' = "main"
    /\ result' = "running"
    /\ UNCHANGED <<disk, dirExists, log, reads, writes, calls>>
    /\ UNCHANGED data
    /\ UNCHANGED splits

\* The process of a finished run exits; only the data directory remains
Exit ==
    /\ pc = "done"
    /\ cfg' = SAMPLING_CONFIG
    /\ args' = NoArgs
    /\ pc' = "idle"
    /\ result' = "returned"
    /\ log' = <<>>
    /\ reads' = {}
    /\ writes' = {}
    /\ FrameLarge' = Unset
    /\ Section' = Unset
    /\ DF' = Unset
    /\ parts' = NoParts
    /\ train_df' = {}
    /\ rows' = NoRowParts
    /\ scaler' = NoScaler
    /\ scalery' = NoScaler
    /\ scaled' = NoScaled
    /\ calls' = <<>>
    /\ UNCHANGED <<disk, dirExists>>

\* The run ends with an exception or a return
Finish(r) ==
    /\ pc' = "done"
    /\ result' = r

\* ------------------------------------------------------------------------
\* main: validation of model_path
\* ------------------------------------------------------------------------
\* Variant: tests model_path against None only, so that an empty string passes
ModelPathIsNone(a) == a.mode = "eval" /\ a.model_path = None

\* args.mode == "eval" and not args.model_path
ModelPathMissing(a) == a.mode = "eval" /\ a.model_path \in {None, ""}

ValidateModelPath ==
    /\ pc = "main"
    /\ IF ModelPathMissing(args)
         THEN Finish("ValueError")
         ELSE pc' = "load" /\ UNCHANGED result
    /\ UNCHANGED <<disk, dirExists, cfg, args, log, reads, writes, calls>>
    /\ UNCHANGED data
    /\ UNCHANGED splits

\* ------------------------------------------------------------------------
\* load_or_generate_data
\* ------------------------------------------------------------------------
\* The generation branch: generatesection, generate_query_points and
\* analysis, which writes the Frame and the Section; both are read back.
Generate ==
    \E k \in 0 .. MaxFiltered :
       /\ log' = log \o <<"mkdir", "generatesection", "generate_query_points",
                          "analysis">>
       /\ disk' = [disk EXCEPT
                     !["frame_large.pkl"] = Content(cfg.N_POINTS, k),
                     !["section.pkl"] = Content(cfg.N_POINTS, 0)]
       /\ writes' = writes \cup {"frame_large.pkl", "section.pkl"}
       /\ reads' = reads \cup {"frame_large.pkl", "section.pkl"}
       /\ FrameLarge' = Content(cfg.N_POINTS, k)
       /\ Section' = Content(cfg.N_POINTS, 0)
       /\ pc' = "temp"
       /\ UNCHANGED result

\* The cached branch: both files are opened and unpickled as they are.
LoadCached ==
    /\ log' = log \o <<"mkdir">>
    /\ UNCHANGED <<disk, writes>>
    /\ IF ~disk["frame_large.pkl"].present
         THEN /\ Finish("FileNotFoundError")
              /\ UNCHANGED <<reads, FrameLarge, Section>>
         ELSE IF ~disk["section.pkl"].present
           THEN /\ Finish("FileNotFoundError")
                /\ reads' = reads \cup {"frame_large.pkl"}
                /\ UNCHANGED <<FrameLarge, Section>>
           ELSE /\ reads' = reads \cup {"frame_large.pkl", "section.pkl"}
                /\ FrameLarge' = disk["frame_large.pkl"]
                /\ Section' = disk["section.pkl"]
                /\ pc' = "temp"
                /\ UNCHANGED result

load_or_generate_data ==
    /\ pc = "load"
    /\ dirExists' = TRUE
    /\ IF args.run_analysis THEN Generate ELSE LoadCached
    /\ UNCHANGED <<cfg, args, DF, calls>>
    /\ UNCHANGED splits

\* ------------------------------------------------------------------------
\* main: structures and query points are generated again, in every mode
\* ------------------------------------------------------------------------
GenerateTemporary ==
    /\ pc = "temp"
    /\ log' = log \o <<"generatesection", "generate_query_points">>
    /\ pc' = "prepare"
    /\ UNCHANGED <<disk, dirExists, cfg, args, result, reads, writes, calls>>
    /\ UNCHANGED data
    /\ UNCHANGED splits

\* ------------------------------------------------------------------------
\* main: remove_strain_z, and the ZS / xs files of a generation run
\* ------------------------------------------------------------------------
SavedByAnalysis(a) == IF a.run_analysis THEN {"ZS.pkl", "xs.pkl"} ELSE {}

Prepare ==
    /\ pc = "prepare"
    /\ log' = log \o <<"remove_strain_z">>
    /\ DF' = FrameLarge
    /\ disk' = [f \in FileNames |->
                  IF f \in SavedByAnalysis(args)
                    THEN Content(FrameLarge.n, FrameLarge.lost)
                    ELSE disk[f]]
    /\ writes' = writes \cup SavedByAnalysis(args)
    /\ pc' = "branch"
    /\ UNCHANGED <<dirExists, cfg, args, result, reads, calls, FrameLarge,
                   Section>>
    /\ UNCHANGED splits

\* ------------------------------------------------------------------------
\* Consumer calls: the routine and the names of what it is passed
\* ------------------------------------------------------------------------
Call(fn, passed) == [fn |-> fn, passed |-> passed]

EvalPaths == {"ZS.pkl", "xs.pkl", "batched_graph_test.pkl"}

\* ------------------------------------------------------------------------
\* The Splitter (training.data_preprocessing.train_val_test_generate)
\* ------------------------------------------------------------------------
ValidSplit(c) ==
    0 < c.SPLIT_IDX /\ c.SPLIT_IDX < c.TEST_IDX /\ c.TEST_IDX < c.N_POINTS

train_val_test_generate(f, c) ==
    [train |-> {s \in Structures(f) : s < c.SPLIT_IDX},
     val   |-> {s \in Structures(f) : c.SPLIT_IDX <= s /\ s < c.TEST_IDX},
     test  |-> {s \in Structures(f) : c.TEST_IDX <= s /\ s < c.N_POINTS}]

\* ------------------------------------------------------------------------
\* PNN path
\* ------------------------------------------------------------------------
PNNSplit ==
    /\ pc = "branch"
    /\ args.model = "PNN"
    /\ log' = log \o <<"train_val_test_generate">>
    /\ IF ValidSplit(cfg)
         THEN /\ parts' = train_val_test_generate(DF, cfg)
              /\ pc' = "pnn"
              /\ UNCHANGED result
         ELSE /\ Finish("ConfigurationError")
              /\ UNCHANGED parts
    /\ UNCHANGED <<disk, dirExists, cfg, args, reads, writes, calls>>
    /\ UNCHANGED data
    /\ UNCHANGED <<train_df, rows, scaler, scalery, scaled>>

\* Variant: the two branches of the PNN dispatch exchanged
PNNCallsSwapped(a) ==
    IF a.mode = "eval"
      THEN <<Call("training_nn",
                  {"args", "TRAIN", "TRAIN_out", "VAL", "VAL_out"})>>
      ELSE IF a.mode = "train"
        THEN <<Call("evaluate_PNN",
                    {"args", "TEST", "TEST_out"} \cup EvalPaths)>>
        ELSE <<>>

PNNCalls(a) ==
    IF a.mode = "train"
      THEN <<Call("training_nn",
                  {"args", "TRAIN", "TRAIN_out", "VAL", "VAL_out"})>>
      ELSE IF a.mode = "eval"
        THEN <<Call("evaluate_PNN",
                    {"args", "TEST", "TEST_out"} \cup EvalPaths)>>
        ELSE <<>>

PNNDispatch ==
    /\ pc = "pnn"
    /\ calls' = calls \o PNNCalls(args)
    /\ Finish("returned")
    /\ UNCHANGED <<disk, dirExists, cfg, args, log, reads, writes>>
    /\ UNCHANGED data
    /\ UNCHANGED splits

\* ------------------------------------------------------------------------
\* FNN path
\* ------------------------------------------------------------------------
FNNRows(f) ==
    [train |-> iloc(f, 0, ROW_TRAIN_END),
     val   |-> iloc(f, ROW_TRAIN_END, ROW_VAL_END),
     test  |-> iloc(f, ROW_VAL_END, ROW_TEST_END)]

FNNSplit ==
    /\ pc = "branch"
    /\ args.model = "FNN"
    /\ rows' = FNNRows(DF)
    /\ pc' = "fnn_scale"
    /\ UNCHANGED <<disk, dirExists, cfg, args, result, log, reads, writes,
                   calls>>
    /\ UNCHANGED data
    /\ UNCHANGED <<parts, train_df, scaler, scalery, scaled>>

\* StandardScaler: the fitted parameters are identified with the rows they
\* were computed from; fitting or transforming an empty array raises
\* ValueError.
Empty(r) == r.hi <= r.lo
fit(sc, r) == [fits |-> sc.fits + 1, params |-> r]
transform(sc, r) == [rows |-> r, params |-> sc.params]

\* The six scaler calls in program order
ScaleOps ==
    << [op |-> "fit_transform", sc |-> "scaler",  part |-> "train", out |-> "x_train"],
       [op |-> "transform",     sc |-> "scaler",  part |-> "val",   out |-> "x_val"],
       [op |-> "transform",     sc |-> "scaler",  part |-> "test",  out |-> "x_test"],
       [op |-> "fit_transform", sc |-> "scalery", part |-> "train", out |-> "y_train"],
       [op |-> "transform",     sc |-> "scalery", part |-> "val",   out |-> "y_val"],
       [op |-> "transform",     sc |-> "scalery", part |-> "test",  out |-> "y_test"] >>

\* Number of scaler calls that complete before one raises
Completed(r) ==
    LET bad == {i \in 1 .. Len(ScaleOps) : Empty(r[ScaleOps[i].part])}
    IN  IF bad = {} THEN Len(ScaleOps)
        ELSE (CHOOSE i \in bad : \A j \in bad : i <= j) - 1

OpName(o) == o.sc \o "." \o o.op \o "(" \o o.out \o ")"

FNNScale ==
    /\ pc = "fnn_scale"
    /\ LET k == Completed(rows)
           done == {ScaleOps[i].out : i \in 1 .. k}
           sx == IF "x_train" \in done THEN fit(scaler, rows.train) ELSE scaler
           sy == IF "y_train" \in done THEN fit(scalery, rows.train) ELSE scalery
       IN  /\ scaler' = sx
           /\ scalery' = sy
           /\ scaled' =
                [o \in DOMAIN scaled |->
                   IF o \notin done THEN scaled[o]
                   ELSE LET j == CHOOSE i \in 1 .. k : ScaleOps[i].out = o
                        IN  transform(IF ScaleOps[j].sc = "scaler" THEN sx ELSE sy,
                                      rows[ScaleOps[j].part])]
           /\ log' = log \o [i \in 1 .. k |-> OpName(ScaleOps[i])]
           /\ IF k = Len(ScaleOps)
                THEN pc' = "fnn" /\ UNCHANGED result
                ELSE Finish("ValueError")
    /\ UNCHANGED <<disk, dirExists, cfg, args, reads, writes, calls>>
    /\ UNCHANGED data
    /\ UNCHANGED <<parts, train_df, rows>>

FNNCalls(a) ==
    IF a.mode = "eval"
      THEN <<Call("evaluate_FNN",
                  {"args", "x_test", "y_test", "y_train_og"} \cup EvalPaths)>>
      ELSE IF a.mode = "train"
        THEN <<Call("training_FNN",
                    {"args", "x_train", "y_train", "x_val", "y_val"})>>
        ELSE <<>>

FNNDispatch ==
    /\ pc = "fnn"
    /\ calls' = calls \o FNNCalls(args)
    /\ Finish("returned")
    /\ UNCHANGED <<disk, dirExists, cfg, args, log, reads, writes>>
    /\ UNCHANGED data
    /\ UNCHANGED splits

\* ------------------------------------------------------------------------
\* GNN path
\* ------------------------------------------------------------------------
\* FrameLarge.loc[FrameLarge['Structure'] <= SPLIT_IDX]
TrainFrame(f, c) == {s \in Structures(f) : s <= c.SPLIT_IDX}

GNNSplit ==
    /\ pc = "branch"
    /\ args.model = "GNN"
    /\ train_df' = TrainFrame(FrameLarge, cfg)
    /\ log' = log \o <<"train_val_test_generate">>
    /\ IF ValidSplit(cfg)
         THEN /\ parts' = train_val_test_generate(DF, cfg)
              /\ pc' = "gnn_graphs"
              /\ UNCHANGED result
         ELSE /\ Finish("ConfigurationError")
              /\ UNCHANGED parts
    /\ UNCHANGED <<disk, dirExists, cfg, args, reads, writes, calls>>
    /\ UNCHANGED data
    /\ UNCHANGED <<rows, scaler, scalery, scaled>>

\* Graph batches pickled by a generation run
SavedGraphs(a) == IF a.run_analysis THEN {"batched_graph.pkl"} ELSE {}

GNNBuildGraphs ==
    /\ pc = "gnn_graphs"
    /\ log' = log \o <<"formation_of_matrices", "GAT", "train_graph",
                       "val_graph", "test_graph">>
    /\ disk' = [f \in FileNames |->
                  IF f \in SavedGraphs(args)
                    THEN Content(DF.n, DF.lost)
                    ELSE disk[f]]
    /\ writes' = writes \cup SavedGraphs(args)
    /\ pc' = "gnn"
    /\ UNCHANGED <<dirExists, cfg, args, result, reads, calls>>
    /\ UNCHANGED data
    /\ UNCHANGED splits

choose_optimizer(a) == IF a.optimizer = "Adam" THEN "ok" ELSE "ValueError"
get_criterion(a) ==
    IF a.criterion \in {"L1loss", "MSE"} THEN "ok" ELSE "ValueError"

\* Outcome of the GNN dispatch: the consumer calls made and how the run ends
GNNOutcome(a) ==
    IF a.mode = "eval"
      THEN [calls |-> <<Call("evaluate_GNN", {"args", "model"} \cup EvalPaths)>>,
            result |-> "returned"]
      ELSE IF choose_optimizer(a) # "ok" \/ get_criterion(a) # "ok"
        THEN [calls |-> <<>>, result |-> "ValueError"]
        ELSE IF a.mode = "train"
          THEN [calls |-> <<Call("training_loop",
                                 {"args", "model", "optimizer", "batched_graph",
                                  "batched_graph_val", "batched_graph_test",
                                  "crit", "Section", "ZS", "xs"})>>,
                result |-> "returned"]
          ELSE [calls |-> <<>>, result |-> "returned"]

GNNDispatch ==
    /\ pc = "gnn"
    /\ calls' = calls \o GNNOutcome(args).calls
    /\ Finish(GNNOutcome(args).result)
    /\ UNCHANGED <<disk, dirExists, cfg, args, log, reads, writes>>
    /\ UNCHANGED data
    /\ UNCHANGED splits

\* ------------------------------------------------------------------------
\* No --model given: none of the three branches is taken
\* ------------------------------------------------------------------------
NoModel ==
    /\ pc = "branch"
    /\ args.model = None
    /\ Finish("returned")
    /\ UNCHANGED <<disk, dirExists, cfg, args, log, reads, writes, calls>>
    /\ UNCHANGED data
    /\ UNCHANGED splits

Next ==
    \/ Invoke
    \/ Exit
    \/ ValidateModelPath
    \/ load_or_generate_data
    \/ GenerateTemporary
    \/ Prepare
    \/ PNNSplit
    \/ PNNDispatch
    \/ FNNSplit
    \/ FNNScale
    \/ FNNDispatch
    \/ GNNSplit
    \/ GNNBuildGraphs
    \/ GNNDispatch
    \/ NoModel

Spec == Init /\ [][Next]_vars

\* ------------------------------------------------------------------------
\* Vocabulary of the properties
\* ------------------------------------------------------------------------
\* The run is past the construction of its train/val/test split
SplitBuilt ==
    \/ pc \in {"pnn", "fnn_scale", "fnn", "gnn_graphs", "gnn"}
    \/ pc = "done" /\ result = "returned" /\ args.model # None

\* The run is past the six scaler calls of the FNN path
Scaled == pc = "fnn" \/ (pc = "done" /\ result = "returned" /\ args.model = "FNN")

\* Structures of frame f with at least one row in the row range r
StructuresIn(f, r) ==
    {s \in Structures(f) :
        /\ FirstRow(f, s) < EndRow(f, s)
        /\ FirstRow(f, s) < r.hi
        /\ r.lo < EndRow(f, s)}

\* Every row of structure s lies in the row range r
Within(f, s, r) == r.lo <= FirstRow(f, s) /\ EndRow(f, s) <= r.hi

\* The partitions of the current run, as sets of structure ids
Partition(p) ==
    IF args.model = "FNN" THEN StructuresIn(DF, rows[p]) ELSE parts[p]

GenerationStages == {"generatesection", "generate_query_points", "analysis"}
Stages == {log[i] : i \in 1 .. Len(log)}
Position(e) == CHOOSE i \in 1 .. Len(log) : log[i] = e

Leaf(model, mode) ==
    CASE model = "GNN" /\ mode = "train" -> "training_loop"
      [] model = "GNN" /\ mode = "eval" -> "evaluate_GNN"
      [] model = "PNN" /\ mode = "train" -> "training_nn"
      [] model = "PNN" /\ mode = "eval" -> "evaluate_PNN"
      [] model = "FNN" /\ mode = "train" -> "training_FNN"
      [] model = "FNN" /\ mode = "eval" -> "evaluate_FNN"
      [] OTHER -> "none"

TrainingRoutines == {"training_loop", "training_nn", "training_FNN"}
EvaluationRoutines == {"evaluate_GNN", "evaluate_PNN", "evaluate_FNN"}
Invoked == {calls[i].fn : i \in 1 .. Len(calls)}

\* ------------------------------------------------------------------------
\* C1: for a Frame of N_POINTS structures and 0 < SPLIT_IDX < TEST_IDX <
\* N_POINTS, on every model path the train partition is exactly the
\* structures [0, SPLIT_IDX), validation exactly [SPLIT_IDX, TEST_IDX) and
\* test exactly [TEST_IDX, N_POINTS); the train set main builds on the GNN
\* path holds exactly the structures below SPLIT_IDX.
\* ------------------------------------------------------------------------
C1_PartitionsAreTheRanges ==
    (SplitBuilt /\ ValidSplit(cfg) /\ DF.n = cfg.N_POINTS) =>
        /\ Partition("train") = 0 .. (cfg.SPLIT_IDX - 1)
        /\ Partition("val") = cfg.SPLIT_IDX .. (cfg.TEST_IDX - 1)
        /\ Partition("test") = cfg.TEST_IDX .. (cfg.N_POINTS - 1)
        /\ args.model = "GNN" => train_df = 0 .. (cfg.SPLIT_IDX - 1)

\* ------------------------------------------------------------------------
\* C2: on every model path every structure has all of its rows of the
\* filtered Frame in one partition: no structure is split between two
\* partitions, or between a partition and the rows left out.  The PNN and
\* GNN partitions are sets of structures; the FNN partitions are row ranges.
\* ------------------------------------------------------------------------
C2_NoStructureIsSplit ==
    (/\ SplitBuilt /\ args.model = "FNN"
     /\ ValidSplit(cfg) /\ DF.n = cfg.N_POINTS) =>
        \A p \in {"train", "val", "test"} :
            \A s \in StructuresIn(DF, rows[p]) : Within(DF, s, rows[p])

\* ------------------------------------------------------------------------
\* C3: on the FNN path each scaler is fitted exactly once, from rows of
\* train-partition structures only, before any validation or test row is
\* transformed, and validation and test are transformed with the fitted
\* parameters.
\* ------------------------------------------------------------------------
C3_ScalersFitOnTrainOnly ==
    (Scaled /\ ValidSplit(cfg) /\ DF.n = cfg.N_POINTS) =>
        /\ scaler.fits = 1 /\ scalery.fits = 1
        /\ \A s \in StructuresIn(DF, scaler.params) : s < cfg.SPLIT_IDX
        /\ \A s \in StructuresIn(DF, scalery.params) : s < cfg.SPLIT_IDX
        /\ Position("scaler.fit_transform(x_train)")
              < Position("scaler.transform(x_val)")
        /\ Position("scalery.fit_transform(y_train)")
              < Position("scalery.transform(y_val)")
        /\ scaled.x_val.params = scaler.params
        /\ scaled.x_test.params = scaler.params
        /\ scaled.y_val.params = scalery.params
        /\ scaled.y_test.params = scalery.params

\* ------------------------------------------------------------------------
\* C4: a run whose split indices violate 0 < SPLIT_IDX < TEST_IDX < N_POINTS
\* executes no stage, reads and writes no file, builds no split and invokes
\* no consumer.
\* ------------------------------------------------------------------------
C4_InvalidSplitStopsTheRun ==
    (pc # "idle" /\ ~ValidSplit(cfg)) =>
        /\ log = <<>>
        /\ reads = {} /\ writes = {}
        /\ rows = NoRowParts /\ parts = NoParts
        /\ calls = <<>>

\* ------------------------------------------------------------------------
\* C5: in a run without run_analysis a cached Frame or Section whose
\* structure count differs from N_POINTS never reaches the Splitter, the
\* GraphBuilder or a consumer.
\* ------------------------------------------------------------------------
C5_StaleCacheIsRejected ==
    (/\ ~args.run_analysis
     /\ FrameLarge.present
     /\ (FrameLarge.n # cfg.N_POINTS \/ Section.n # cfg.N_POINTS)) =>
        /\ "train_val_test_generate" \notin Stages
        /\ "train_graph" \notin Stages
        /\ rows = NoRowParts
        /\ calls = <<>>

\* ------------------------------------------------------------------------
\* C6: a completed generation run on the GNN path leaves a graph batch for
\* each of the three splits in the data directory, and every file an
\* evaluation run hands to its evaluator exists in the data directory.
\* ------------------------------------------------------------------------
C6_EvalArtifactsArePersisted ==
    /\ (/\ pc = "done" /\ result = "returned"
        /\ args.run_analysis /\ args.model = "GNN") =>
           \A f \in {"batched_graph.pkl", "batched_graph_val.pkl",
                     "batched_graph_test.pkl"} : disk[f].present
    /\ \A i \in 1 .. Len(calls) :
           \A f \in calls[i].passed \cap FileNames : disk[f].present

\* ------------------------------------------------------------------------
\* C7: every FNN or PNN consumer is passed the six split arrays and the
\* parameters fitted on the train partition.
\* ------------------------------------------------------------------------
C7_TabularHandoffIsComplete ==
    \A i \in 1 .. Len(calls) :
        /\ calls[i].fn \in {"training_FNN", "evaluate_FNN"} =>
              {"x_train", "y_train", "x_val", "y_val", "x_test", "y_test",
               "scaler", "scalery"} \subseteq calls[i].passed
        /\ calls[i].fn \in {"training_nn", "evaluate_PNN"} =>
              {"TRAIN", "TRAIN_out", "VAL", "VAL_out", "TEST", "TEST_out",
               "mins_train", "maxs_train"} \subseteq calls[i].passed

\* ------------------------------------------------------------------------
\* C8: a run in mode eval without a model path (absent or empty) ends with
\* ValueError at the first statement of main: no stage has run (the data
\* directory is not created), no file is read or written, no consumer is
\* invoked; whatever the model and run_analysis.
\* ------------------------------------------------------------------------
C8_EvalNeedsModelPath ==
    (pc # "idle" /\ args.mode = "eval" /\ args.model_path \in {None, ""}) =>
        /\ pc \in {"main", "done"}
        /\ pc = "done" => result = "ValueError"
        /\ log = <<>>
        /\ reads = {} /\ writes = {}
        /\ rows = NoRowParts /\ parts = NoParts
        /\ calls = <<>>

C8_Witness ==
    /\ pc = "done" /\ result = "ValueError"
    /\ args.mode = "eval" /\ args.model_path = ""
    /\ args.run_analysis /\ args.model = "GNN"
    /\ disk["frame_large.pkl"].present

\* ------------------------------------------------------------------------
\* C9 as stated: every run that returns without error has invoked exactly
\* one consumer, the one of its (model, mode) pair.
\* ------------------------------------------------------------------------
C9_ExactlyOneLeaf ==
    (pc = "done" /\ result = "returned") =>
        /\ Len(calls) = 1
        /\ calls[1].fn = Leaf(args.model, args.mode)

\* ------------------------------------------------------------------------
\* C9 as amended: a run given both a mode and a model that returns without
\* error has invoked exactly one consumer, exactly once, the one of its
\* (model, mode) pair; a run given no mode or no model returns without
\* invoking any; no run invokes a training routine in eval mode or an
\* evaluation routine in train mode.
\* ------------------------------------------------------------------------
C9_OneLeafWhenModeAndModelGiven ==
    /\ (pc = "done" /\ result = "returned") =>
          IF args.mode # None /\ args.model # None
            THEN Len(calls) = 1 /\ calls[1].fn = Leaf(args.model, args.mode)
            ELSE calls = <<>>
    /\ Len(calls) <= 1
    /\ args.mode = "eval" => Invoked \cap TrainingRoutines = {}
    /\ args.mode = "train" => Invoked \cap EvaluationRoutines = {}

C9_Witness ==
    /\ pc = "done" /\ result = "returned"
    /\ args.model = "PNN" /\ args.mode = "eval"
    /\ Len(calls) = 1 /\ calls[1].fn = "evaluate_PNN"

\* ------------------------------------------------------------------------
\* C10: a run without run_analysis executes none of the generation stages
\* (generatesection, generate_query_points, analysis).
\* ------------------------------------------------------------------------
C10_CachedRunGeneratesNothing ==
    ~args.run_analysis => Stages \cap GenerationStages = {}

\* ------------------------------------------------------------------------
\* Type invariant
\* ------------------------------------------------------------------------
TypeOK ==
    /\ pc \in {"idle", "main", "load", "temp", "prepare", "branch", "pnn",
               "fnn_scale", "fnn", "gnn_graphs", "gnn", "done"}
    /\ result \in {"running", "returned", "ValueError", "FileNotFoundError",
                   "ConfigurationError"}
    /\ args \in parse_arguments
    /\ cfg \in Configs
    /\ reads \subseteq FileNames
    /\ writes \subseteq FileNames
    /\ Len(calls) <= 1
====
